---- MODULE Spec2Model ----
(***************************************************************************)
(* fshelpers (src/src/lib.rs): idempotent filesystem helpers.  Each helper *)
(* calls one std::fs primitive and passes the result through the iopermit! *)
(* macro, which turns chosen io::ErrorKind values into Ok(()).             *)
(*                                                                         *)
(* The host filesystem is the state.  Paths are sequences of component     *)
(* names, resolved from the process's working directory (the root <<>> of  *)
(* the model).  fs maps every existing physical path to its entry.         *)
(***************************************************************************)
EXTENDS Naturals, Sequences, FiniteSets

VARIABLES fs, last

vars == <<fs, last>>

\* ---------------------------------------------------------------- bounds

\* Largest content value an external writer gives a file (0 is the empty file).
MaxData == 1

\* Symbolic links followed in one path resolution before the OS gives up.  No
\* link of this universe leads to another link, so the limit is never met.
MaxLinkHops == 2

\* ------------------------------------------------------------ the universe

\* The paths callers pass to the helpers.
ArgPaths ==
  { <<"a">>, <<"a", "b">>, <<"a", "b", "c">>, <<"a", "b", "c", "file">>,
    <<"a", "a">>, <<"a", "l">>, <<"l">>, <<"l", "b">> }

\* Where other programs place symbolic links, and the target text they store.
LinkPaths == { <<"l">>, <<"a", "l">> }
LinkTargets == { <<"a">> }

\* io::ErrorKind values the primitives produce here; "None" is Ok.
None == "None"
Faults == { None, "PermissionDenied" }

Dir == [kind |-> "Dir", data |-> 0, rel |-> FALSE, target |-> <<>>]
File(d) == [kind |-> "File", data |-> d, rel |-> FALSE, target |-> <<>>]
Link(r, t) == [kind |-> "Link", data |-> 0, rel |-> r, target |-> t]

EmptyFs == [q \in {} |-> Dir]

\* --------------------------------------------------------- path utilities

\* Path::parent of a relative path: "a" has the parent "", "" has none.
Parent(p) == SubSeq(p, 1, Len(p) - 1)

IsPrefix(p, q) == Len(p) <= Len(q) /\ SubSeq(q, 1, Len(p)) = p

Children(f, d) == { q \in DOMAIN f : Len(q) = Len(d) + 1 /\ IsPrefix(d, q) }

Put(f, p, e) == [q \in (DOMAIN f) \cup {p} |-> IF q = p THEN e ELSE f[q]]

Del(f, S) == [q \in (DOMAIN f) \ S |-> f[q]]

\* ------------------------------------------------- the OS: path resolution

\* Resolve the components rest from the directory cur.  Intermediate links
\* are always followed; the last component's link only when follow.  A
\* relative link target is resolved from the directory holding the link.
\* The result names the physical path of the last component, which need
\* not exist.
RECURSIVE Walk(_, _, _, _, _)
Walk(f, cur, rest, follow, fuel) ==
  IF rest = <<>> THEN [err |-> None, phys |-> cur]
  ELSE
    LET cand == Append(cur, Head(rest))
        more == Tail(rest)
    IN  IF cand \notin DOMAIN f
        THEN IF more = <<>> THEN [err |-> None, phys |-> cand]
                            ELSE [err |-> "NotFound", phys |-> cand]
        ELSE CASE f[cand].kind = "Dir" -> Walk(f, cand, more, follow, fuel)
               [] f[cand].kind = "File" ->
                    IF more = <<>> THEN [err |-> None, phys |-> cand]
                                   ELSE [err |-> "NotADirectory", phys |-> cand]
               [] OTHER ->
                    IF more = <<>> /\ ~follow
                    THEN [err |-> None, phys |-> cand]
                    ELSE IF fuel = 0
                    THEN [err |-> "FilesystemLoop", phys |-> cand]
                    ELSE Walk(f, IF f[cand].rel THEN cur ELSE <<>>,
                              f[cand].target \o more, follow, fuel - 1)

\* stat (follow) and lstat (~follow): the entry at a path, or the error.
\* The empty path names nothing.
Stat(f, p, follow) ==
  IF p = <<>> THEN [err |-> "NotFound", phys |-> <<>>]
  ELSE LET w == Walk(f, <<>>, p, follow, MaxLinkHops)
       IN  IF w.err /= None THEN w
           ELSE IF w.phys \notin DOMAIN f THEN [err |-> "NotFound", phys |-> w.phys]
           ELSE w

KindAt(f, p, follow) ==
  LET s == Stat(f, p, follow)
  IN  IF s.err /= None THEN "Absent" ELSE f[s.phys].kind

\* Path::exists, Path::is_dir, Path::is_file follow links; is_symlink does not.
\* Each answers false when the lookup fails.
PathExists(f, p) == KindAt(f, p, TRUE) /= "Absent"
PathIsDir(f, p) == KindAt(f, p, TRUE) = "Dir"
PathIsFile(f, p) == KindAt(f, p, TRUE) = "File"
PathIsSymlink(f, p) == KindAt(f, p, FALSE) = "Link"

\* ---------------------------------------------------- the OS: primitives
\* Each returns [fs, err].  flt is an error the OS raises for a reason the
\* tree does not show (permissions, I/O); it hits the mutating system calls
\* and readlink.

Ok(f) == [fs |-> f, err |-> None]
Fail(f, e) == [fs |-> f, err |-> e]

\* Creation of a new entry e at p: mkdir(2), open(O_CREAT|O_EXCL).  The last
\* component is not followed, so a link there, dangling or not, is EEXIST.
OsCreate(f, p, e, flt) ==
  IF flt /= None THEN Fail(f, flt)
  ELSE IF p = <<>> THEN Fail(f, "NotFound")
  ELSE LET w == Walk(f, <<>>, p, FALSE, MaxLinkHops)
       IN  IF w.err /= None THEN Fail(f, w.err)
           ELSE IF w.phys \in DOMAIN f THEN Fail(f, "AlreadyExists")
           ELSE Ok(Put(f, w.phys, e))

\* std::fs::create_dir
create_dir(f, p, flt) == OsCreate(f, p, Dir, flt)

\* The slip File::create for File::create_new: an existing file is opened and
\* truncated instead of reported.
create_new_Truncating(f, p, flt) ==
  IF flt = None /\ KindAt(f, p, TRUE) = "File"
  THEN Ok(Put(f, Stat(f, p, TRUE).phys, File(0)))
  ELSE OsCreate(f, p, File(0), flt)

\* std::fs::File::create_new(..).map(drop): a new empty file
create_new(f, p, flt) == OsCreate(f, p, File(0), flt)

\* std::fs::create_dir_all: mkdir; on NotFound create the parent chain and
\* mkdir again; any other error is forgiven when the path is a directory.
RECURSIVE create_dir_all(_, _, _)
create_dir_all(f, p, flt) ==
  IF p = <<>> THEN Ok(f)
  ELSE
    LET m == create_dir(f, p, flt)
    IN  IF m.err = None THEN m
        ELSE IF m.err /= "NotFound"
        THEN IF PathIsDir(f, p) THEN Ok(f) ELSE m
        ELSE
          LET par == create_dir_all(f, Parent(p), flt)
          IN  IF par.err /= None THEN par
              ELSE LET m2 == create_dir(par.fs, p, flt)
                   IN  IF m2.err = None THEN m2
                       ELSE IF PathIsDir(par.fs, p) THEN Ok(par.fs)
                       ELSE m2

\* std::fs::remove_dir: rmdir(2)
remove_dir(f, p, flt) ==
  IF flt /= None THEN Fail(f, flt)
  ELSE LET s == Stat(f, p, FALSE)
       IN  IF s.err /= None THEN Fail(f, s.err)
           ELSE IF f[s.phys].kind /= "Dir" THEN Fail(f, "NotADirectory")
           ELSE IF Children(f, s.phys) /= {} THEN Fail(f, "DirectoryNotEmpty")
           ELSE Ok(Del(f, {s.phys}))

\* std::fs::remove_file: unlink(2); a directory is EISDIR on Linux
remove_file(f, p, flt) ==
  IF flt /= None THEN Fail(f, flt)
  ELSE LET s == Stat(f, p, FALSE)
       IN  IF s.err /= None THEN Fail(f, s.err)
           ELSE IF f[s.phys].kind = "Dir" THEN Fail(f, "IsADirectory")
           ELSE Ok(Del(f, {s.phys}))

\* std::fs::remove_dir_all: lstat first; a link is unlinked, not followed;
\* a directory goes with everything below it; a file is ENOTDIR.
remove_dir_all(f, p, flt) ==
  LET s == Stat(f, p, FALSE)
  IN  IF s.err /= None THEN Fail(f, s.err)
      ELSE IF f[s.phys].kind = "Link" THEN remove_file(f, p, flt)
      ELSE IF f[s.phys].kind = "File" THEN Fail(f, "NotADirectory")
      ELSE IF flt /= None THEN Fail(f, flt)
      ELSE Ok(Del(f, { q \in DOMAIN f : IsPrefix(s.phys, q) }))

\* A read_link that looks the target up, and so fails on a broken link.
read_link_Resolving(f, p, flt) ==
  IF flt /= None THEN [err |-> flt, target |-> <<>>]
  ELSE LET s == Stat(f, p, TRUE)
       IN  IF s.err /= None THEN [err |-> s.err, target |-> <<>>]
           ELSE [err |-> None, target |-> f[Stat(f, p, FALSE).phys].target]

\* std::fs::read_link: the target text as stored, [err, target]
read_link(f, p, flt) ==
  IF flt /= None THEN [err |-> flt, target |-> <<>>]
  ELSE LET s == Stat(f, p, FALSE)
       IN  IF s.err /= None THEN [err |-> s.err, target |-> <<>>]
           ELSE IF f[s.phys].kind /= "Link"
           THEN [err |-> "InvalidInput", target |-> <<>>]
           ELSE [err |-> None, target |-> f[s.phys].target]

\* ------------------------------------------------------------- iopermit!

\* A permit stage whose closure answers true for every error.
PermitStage_PermitsAll(r, k) ==
  IF r.err = None THEN r
  ELSE [fs |-> r.fs, err |-> None, log |-> Append(r.log, k)]

\* One .permit(|e| { debug!("Permitting k ..."); e.kind() == k }) stage on
\* r = [fs, err, log]: the closure runs only for an Err, logs, then compares.
PermitStage(r, k) ==
  IF r.err = None THEN r
  ELSE [fs |-> r.fs,
        err |-> IF r.err = k THEN None ELSE r.err,
        log |-> Append(r.log, k)]

\* iopermit!(f, k1, k2, ...): the stages chained in order.
RECURSIVE PermitChain(_, _)
PermitChain(r, kinds) ==
  IF kinds = <<>> THEN r
  ELSE PermitChain(PermitStage(r, Head(kinds)), Tail(kinds))

iopermit(prim, kinds, log) ==
  PermitChain([fs |-> prim.fs, err |-> prim.err, log |-> log], kinds)

\* ------------------------------------------------------------ the helpers
\* Each returns [fs, err, log].

\* mkdir permitting the removal helpers' kind instead of its own.
mkdir_PermitsNotFound(f, p, flt) ==
  iopermit(create_dir(f, p, flt), <<"NotFound">>, <<>>)

mkdir(f, p, flt) == iopermit(create_dir(f, p, flt), <<"AlreadyExists">>, <<>>)

mkf(f, p, flt) == iopermit(create_new(f, p, flt), <<"AlreadyExists">>, <<>>)

mkdir_p(f, p, flt) == iopermit(create_dir_all(f, p, flt), <<"AlreadyExists">>, <<>>)

mkf_p(f, p, flt) ==
  LET par == IF p /= <<>> /\ ~PathExists(f, Parent(p))
             THEN mkdir_p(f, Parent(p), flt)
             ELSE [fs |-> f, err |-> None, log |-> <<>>]
  IN  IF par.err /= None THEN par
      ELSE iopermit(create_new(par.fs, p, flt), <<"AlreadyExists">>, par.log)

\* rmdir calling the recursive primitive.
rmdir_Recursive(f, p, flt) ==
  iopermit(remove_dir_all(f, p, flt), <<"NotFound", "DirectoryNotEmpty">>, <<>>)

rmdir(f, p, flt) ==
  iopermit(remove_dir(f, p, flt), <<"NotFound", "DirectoryNotEmpty">>, <<>>)

\* rmdir_r permitting already-exists instead of not-found.
rmdir_r_PermitsAlreadyExists(f, p, flt) ==
  iopermit(remove_dir_all(f, p, flt), <<"AlreadyExists">>, <<>>)

rmdir_r(f, p, flt) == iopermit(remove_dir_all(f, p, flt), <<"NotFound">>, <<>>)

rmf(f, p, flt) == iopermit(remove_file(f, p, flt), <<"NotFound">>, <<>>)

\* rm without the is_symlink test: a link is dispatched by what it leads to.
rm_NoSymlinkCheck(f, p, flt) ==
  IF PathIsFile(f, p) THEN rmf(f, p, flt) ELSE rmdir(f, p, flt)

rm(f, p, flt) ==
  IF PathIsSymlink(f, p) \/ PathIsFile(f, p) THEN rmf(f, p, flt) ELSE rmdir(f, p, flt)

\* is_dir returns [err, val]: Ok(val) or the read_link error.
is_dir(f, p, flt) ==
  IF PathIsDir(f, p) THEN [err |-> None, val |-> TRUE]
  ELSE IF PathIsSymlink(f, p)
  THEN LET t == read_link(f, p, flt)
       IN  IF t.err /= None THEN [err |-> t.err, val |-> FALSE]
           ELSE [err |-> None, val |-> PathIsDir(f, t.target)]
  ELSE [err |-> None, val |-> FALSE]

\* ------------------------------------------------------------- the machine

\* last: the call whose result the caller holds, with the filesystem the call
\* found; op = "none" between calls.
Idle ==
  [op |-> "none", path |-> <<>>, flt |-> None, pre |-> EmptyFs,
   err |-> None, val |-> FALSE, log |-> <<>>]

Call(op, p, flt, r) ==
  /\ last.op = "none"
  /\ fs' = r.fs
  /\ last' = [op |-> op, path |-> p, flt |-> flt, pre |-> fs,
              err |-> r.err, val |-> FALSE, log |-> r.log]

Init ==
  /\ fs = EmptyFs
  /\ last = Idle

Mkdir == \E p \in ArgPaths, flt \in Faults : Call("mkdir", p, flt, mkdir(fs, p, flt))
Mkf == \E p \in ArgPaths, flt \in Faults : Call("mkf", p, flt, mkf(fs, p, flt))
MkfP == \E p \in ArgPaths, flt \in Faults : Call("mkf_p", p, flt, mkf_p(fs, p, flt))
MkdirP == \E p \in ArgPaths, flt \in Faults : Call("mkdir_p", p, flt, mkdir_p(fs, p, flt))
Rmdir == \E p \in ArgPaths, flt \in Faults : Call("rmdir", p, flt, rmdir(fs, p, flt))
RmdirR == \E p \in ArgPaths, flt \in Faults : Call("rmdir_r", p, flt, rmdir_r(fs, p, flt))
Rmf == \E p \in ArgPaths, flt \in Faults : Call("rmf", p, flt, rmf(fs, p, flt))
Rm == \E p \in ArgPaths, flt \in Faults : Call("rm", p, flt, rm(fs, p, flt))

IsDir ==
  \E p \in ArgPaths, flt \in Faults :
    LET r == is_dir(fs, p, flt)
    IN  /\ last.op = "none"
        /\ fs' = fs
        /\ last' = [op |-> "is_dir", path |-> p, flt |-> flt, pre |-> fs,
                    err |-> r.err, val |-> r.val, log |-> <<>>]

\* The caller consumes the result; nothing of the call is retained.
Return ==
  /\ last.op /= "none"
  /\ last' = Idle
  /\ UNCHANGED fs

\* Between calls another program places a symbolic link (the helpers create
\* none).
ExtSymlink ==
  \E p \in LinkPaths, t \in LinkTargets, r \in BOOLEAN :
    LET c == OsCreate(fs, p, Link(r, t), None)
    IN  /\ last.op = "none"
        /\ c.err = None
        /\ fs' = c.fs
        /\ UNCHANGED last

\* Between calls another program writes to a file (the helpers only create
\* empty ones).
ExtWrite ==
  \E p \in ArgPaths :
    /\ last.op = "none"
    /\ PathIsFile(fs, p)
    /\ LET q == Stat(fs, p, TRUE).phys
       IN  /\ fs[q].data < MaxData
           /\ fs' = Put(fs, q, File(fs[q].data + 1))
    /\ UNCHANGED last

Next ==
  \/ Mkdir \/ Mkf \/ MkfP \/ MkdirP
  \/ Rmdir \/ RmdirR \/ Rmf \/ Rm
  \/ IsDir \/ Return
  \/ ExtSymlink \/ ExtWrite

Spec == Init /\ [][Next]_vars

\* ------------------------------------------------------ shared vocabulary

CreateOps == { "mkdir", "mkf", "mkf_p", "mkdir_p" }
RemoveOps == { "rmdir", "rmdir_r", "rmf", "rm" }

\* The permitted classifications of the specification's table (section 4.1).
Permitted(op) ==
  CASE op \in CreateOps -> { "AlreadyExists" }
    [] op = "rmdir" -> { "NotFound", "DirectoryNotEmpty" }
    [] OTHER -> { "NotFound" }

\* What the underlying primitive of a single-primitive helper reports.
PrimErr(op, f, p, flt) ==
  CASE op = "mkdir" -> create_dir(f, p, flt).err
    [] op = "mkf" -> create_new(f, p, flt).err
    [] op = "mkdir_p" -> create_dir_all(f, p, flt).err
    [] op = "rmdir" -> remove_dir(f, p, flt).err
    [] op = "rmdir_r" -> remove_dir_all(f, p, flt).err
    [] OTHER -> remove_file(f, p, flt).err

\* The contract of section 4.1/7 applied to a primitive's report.
Absorb(op, e) == IF e \in Permitted(op) THEN None ELSE e

\* A helper applied once more, by name.
Helper(op, f, p, flt) ==
  CASE op = "mkdir" -> mkdir(f, p, flt)
    [] op = "mkf" -> mkf(f, p, flt)
    [] op = "mkf_p" -> mkf_p(f, p, flt)
    [] op = "mkdir_p" -> mkdir_p(f, p, flt)
    [] op = "rmdir" -> rmdir(f, p, flt)
    [] op = "rmdir_r" -> rmdir_r(f, p, flt)
    [] op = "rmf" -> rmf(f, p, flt)
    [] OTHER -> rm(f, p, flt)

\* The entry the call found at its path, without following a last link.
PreKind == KindAt(last.pre, last.path, FALSE)
PrePhys == Stat(last.pre, last.path, FALSE).phys
\* What the path led to, following links.
PreTargetKind == KindAt(last.pre, last.path, TRUE)
Below(f, d) == { q \in DOMAIN f : IsPrefix(d, q) }
NoFault == last.flt = None

\* ---------------------------------------------------------------- C1
\* C1: for mkdir, mkf, mkf_p, mkdir_p, rmdir, rmdir_r and rmf, whatever the
\* underlying primitive reports, the call returns success when the report is
\* success or a classification of the helper's permitted set, and otherwise
\* returns exactly the primitive's error.  mkf_p has two primitives: an
\* unpermitted error of the parent creation is returned as it is, otherwise
\* the file creation decides.
C1_PermittedOrPropagated ==
  /\ last.op \in { "mkdir", "mkf", "mkdir_p", "rmdir", "rmdir_r", "rmf" } =>
       last.err = Absorb(last.op, PrimErr(last.op, last.pre, last.path, last.flt))
  /\ last.op = "mkf_p" =>
       LET need == ~PathExists(last.pre, Parent(last.path))
           d == create_dir_all(last.pre, Parent(last.path), last.flt)
       IN  IF need /\ Absorb("mkdir_p", d.err) /= None
           THEN last.err = d.err
           ELSE last.err =
                  Absorb("mkf_p",
                         create_new(IF need THEN d.fs ELSE last.pre,
                                    last.path, last.flt).err)

\* rmdir met DirectoryNotEmpty, the second kind of its chain, and returned Ok.
C1_Witness ==
  /\ last.op = "rmdir"
  /\ remove_dir(last.pre, last.path, last.flt).err = "DirectoryNotEmpty"
  /\ last.err = None

\* ---------------------------------------------------------------- C2
\* C2: rm on a plain file deletes that file and nothing else; rm on a
\* directory that has entries deletes the directory and everything below it;
\* after a successful rm nothing exists at the path.
C2_RmRemovesWhateverIsThere ==
  (last.op = "rm" /\ NoFault) =>
    /\ PreKind = "File" => (last.err = None /\ fs = Del(last.pre, {PrePhys}))
    /\ (PreKind = "Dir" /\ Children(last.pre, PrePhys) /= {}) =>
         (last.err = None /\ fs = Del(last.pre, Below(last.pre, PrePhys)))
    /\ last.err = None => KindAt(fs, last.path, FALSE) = "Absent"

C4_RmdirKeepsPopulated ==
  last.op = "rmdir" =>
    /\ (NoFault /\ PreKind = "Dir" /\ Children(last.pre, PrePhys) /= {}) =>
         (last.err = None /\ fs = last.pre)
    /\ \A q \in DOMAIN fs : q \in DOMAIN last.pre /\ fs[q] = last.pre[q]
    /\ \A q \in (DOMAIN last.pre) \ (DOMAIN fs) :
         /\ last.pre[q].kind = "Dir"
         /\ Children(last.pre, q) = {}
         /\ (DOMAIN last.pre) \ (DOMAIN fs) = {q}

C4_Witness ==
  /\ last.op = "rmdir" /\ NoFault
  /\ PreKind = "Dir" /\ Children(last.pre, PrePhys) /= {}
  /\ last.err = None /\ fs = last.pre

\* ---------------------------------------------------------------- C5
\* C5 as stated: for each creation helper and every path, the call returns
\* success, the same call made again at once returns success, and the second
\* call leaves the filesystem as the first left it.
C5_CreateTwiceAlwaysSucceeds ==
  (last.op \in CreateOps /\ NoFault) =>
    LET again == Helper(last.op, fs, last.path, None)
    IN  last.err = None /\ again.err = None /\ again.fs = fs

\* C5 as amended: for each creation helper and every path at which the first
\* call returned success, the same call made again at once leaves the
\* filesystem as the first left it, and returns success unless the OS raises
\* an error that is not already-exists.
C5_CreateTwiceIdempotent ==
  (last.op \in CreateOps /\ last.err = None) =>
    \A flt2 \in Faults :
      LET again == Helper(last.op, fs, last.path, flt2)
      IN  /\ again.fs = fs
          /\ flt2 = None => again.err = None

\* A creation helper has just created its entry; the formula calls it again.
C5_Witness ==
  /\ last.op \in CreateOps /\ last.err = None
  /\ fs /= last.pre
  /\ KindAt(last.pre, last.path, FALSE) = "Absent"

\* ---------------------------------------------------------------- C6
\* C6 as stated: rmf, rmdir, rmdir_r and rm on a path at which nothing exists
\* return success and leave the whole filesystem unchanged.
C6_RemoveAbsentSucceeds ==
  (last.op \in RemoveOps /\ NoFault /\ PreKind = "Absent") =>
    (last.err = None /\ fs = last.pre)

\* C6 as amended: rmf, rmdir, rmdir_r and rm on a path at which nothing
\* exists leave the whole filesystem unchanged; they return success when the
\* OS reports not-found (every ancestor named by the path is a directory or
\* itself missing), and return the OS's error unchanged when it reports
\* another classification, such as not-a-directory for a path below a regular
\* file.
C6_RemoveAbsentUnchanged ==
  (last.op \in RemoveOps /\ PreKind = "Absent") =>
    LET e == Stat(last.pre, last.path, FALSE).err
    IN  /\ fs = last.pre
        /\ (NoFault /\ e = "NotFound") => last.err = None
        /\ (NoFault /\ e /= "NotFound") => last.err = e

C6_Witness ==
  /\ last.op = "rm" /\ NoFault /\ PreKind = "Absent"
  /\ Stat(last.pre, last.path, FALSE).err = "NotFound"
  /\ last.pre /= EmptyFs
  /\ last.err = None /\ fs = last.pre

\* ---------------------------------------------------------------- C7
\* C7: mkf_p on a path none of whose ancestors exists creates every
\* intermediate directory and an empty file at the path, and touches nothing
\* else; mkf_p on a path where a file already is returns success and leaves
\* the file's contents and everything else as they were.
ProperPrefixes(p) == { SubSeq(p, 1, n) : n \in 1..(Len(p) - 1) }

C7_ParentsThenFile ==
  (last.op = "mkf_p" /\ NoFault) =>
    /\ <<Head(last.path)>> \notin DOMAIN last.pre =>
         /\ last.err = None
         /\ DOMAIN fs = (DOMAIN last.pre) \cup ProperPrefixes(last.path) \cup {last.path}
         /\ \A q \in ProperPrefixes(last.path) : fs[q] = Dir
         /\ fs[last.path] = File(0)
         /\ \A q \in DOMAIN last.pre : fs[q] = last.pre[q]
    /\ PreKind = "File" => (last.err = None /\ fs = last.pre)

\* mkf_p("a/b/c/file") in a workspace without "a" created three directories
\* and the file.
C7_Witness ==
  /\ last.op = "mkf_p" /\ NoFault
  /\ last.path = <<"a", "b", "c", "file">>
  /\ <<"a">> \notin DOMAIN last.pre
  /\ last.err = None
  /\ fs[<<"a", "b", "c">>] = Dir
  /\ fs[last.path] = File(0)

\* ---------------------------------------------------------------- C8
\* C8: whenever a creation helper returns success its postcondition holds:
\* after mkdir or mkdir_p a directory is at the path, after mkf or mkf_p a
\* file is at the path (through links).
C8_CreatePostcondition ==
  last.err = None =>
    /\ last.op \in { "mkdir", "mkdir_p" } => PathIsDir(fs, last.path)
    /\ last.op \in { "mkf", "mkf_p" } => PathIsFile(fs, last.path)

\* ---------------------------------------------------------------- C9
\* C9: rm on a symbolic link removes the link itself and nothing else, also
\* when the link leads to a directory that has entries.
C9_RmLinkOnly ==
  (last.op = "rm" /\ NoFault /\ PreKind = "Link") =>
    (last.err = None /\ fs = Del(last.pre, {PrePhys}))

\* rm removed a link to a populated directory; the directory and its entries
\* are still there.
C9_Witness ==
  /\ last.op = "rm" /\ NoFault /\ PreKind = "Link"
  /\ PreTargetKind = "Dir"
  /\ Children(last.pre, Stat(last.pre, last.path, TRUE).phys) /= {}
  /\ last.err = None
  /\ PrePhys \notin DOMAIN fs
  /\ Children(fs, Stat(last.pre, last.path, TRUE).phys) /= {}

\* ---------------------------------------------------------------- C10
\* C10: a "Permitting <kind>" entry is logged exactly when an error is
\* permitted and names that error's classification: nothing is logged when
\* the primitive succeeds or when the error propagates.
C10_LogOnlyWhatIsPermitted ==
  /\ last.err /= None => last.log = <<>>
  /\ last.op \in { "mkdir", "mkf", "mkdir_p", "rmdir", "rmdir_r", "rmf" } =>
       LET e == PrimErr(last.op, last.pre, last.path, last.flt)
       IN  last.log = IF e \in Permitted(last.op) THEN <<e>> ELSE <<>>

====
